---- MODULE Spec2Model ----
(***************************************************************************)
(* buttplug-osc (src/src/main.rs): an OSC-over-UDP listener that routes    *)
(* path-addressed commands to the devices of a Buttplug session.           *)
(*                                                                         *)
(* Two activities share one evmap registry:                                *)
(*   - main's reconnect loop running intiface_connect (the writer),        *)
(*   - osc_listen on a blocking thread (the reader).                       *)
(*                                                                         *)
(* Strings are sequences of one-character strings, so that split('/'),     *)
(* starts_with and normalize_device_name are computed, not assumed.        *)
(* f32/f64 values are exact multiples of 1/Scale, held as the integer      *)
(* numerator: 0.75 is 3 when Scale is 4.                                   *)
(***************************************************************************)
EXTENDS Integers, Sequences, FiniteSets, TLC

\* ------------------------------------------------------------------ bounds

\* Devices the remote server may report (the first NumDevices of RawNames).
NumDevices == 3
\* Events buffered on one instance's event stream.
MaxStream == 1
\* Events buffered on the stream when the session runs without the listener.
MaxSessionStream == 2
\* Segments after the first one of the addresses ParserSpec enumerates.
MaxPathLen == 4
\* Resolution of the f32/f64 values: a value is val / Scale.
Scale == 4

\* ----------------------------------------------------------------- strings

\* "all", line 17
DEVICES_ALL == <<"a", "l", "l">>

\* "last", line 18
DEVICES_LAST == <<"l", "a", "s", "t">>

\* char::is_alphanumeric on the characters the model uses
Alphanumeric ==
    {"a", "b", "c", "d", "e", "g", "i", "l", "n", "o", "p", "r", "s", "t", "v", "x",
     "E", "L", "M", "2"}

\* name.split(|c| !c.is_alphanumeric()).collect::<String>(): the pieces between
\* the non-alphanumeric characters, concatenated
RECURSIVE normalize_device_name(_)
normalize_device_name(name) ==
    IF name = <<>> THEN <<>>
    ELSE IF Head(name) \in Alphanumeric
         THEN <<Head(name)>> \o normalize_device_name(Tail(name))
         ELSE normalize_device_name(Tail(name))

\* str::starts_with
StartsWith(k, set) ==
    /\ Len(set) <= Len(k)
    /\ SubSeq(k, 1, Len(set)) = set

\* addr.split('/').collect::<Vec<&str>>(): "/a/b" gives "", "a", "b"; the empty
\* string gives one empty piece
RECURSIVE SplitFrom(_, _, _)
SplitFrom(s, i, piece) ==
    IF i > Len(s) THEN <<piece>>
    ELSE IF s[i] = "/" THEN <<piece>> \o SplitFrom(s, i + 1, <<>>)
         ELSE SplitFrom(s, i + 1, Append(piece, s[i]))

Split(addr) == SplitFrom(addr, 1, <<>>)

\* Vec::get / slice::get: None past the end
Get(v, i) == IF i + 1 <= Len(v) THEN [kind |-> "Some", val |-> v[i + 1]] ELSE [kind |-> "None"]

\* ---------------------------------------------------------- OSC messages

\* rosc::OscType, the variants the parser tells apart (lines 193-199, 221-230)
OscInt(i) == [type |-> "Int", val |-> i]
OscFloat(q) == [type |-> "Float", val |-> q]
OscDouble(q) == [type |-> "Double", val |-> q]
OscString(s) == [type |-> "String", str |-> s]

\* Option::None / Option::Some
None == [kind |-> "None"]
Some(v) == [kind |-> "Some", val |-> v]

\* osc::Message { addr, args: Option<Vec<OscType>> }
Message(addr, args) == [addr |-> addr, args |-> args]

\* enum Command, lines 282-286
CmdStop == [kind |-> "Stop"]
CmdVibrate(speed) == [kind |-> "Vibrate", speed |-> speed]
CmdVibrateMap(motor, speed) == [kind |-> "VibrateMap", motor |-> motor, speed |-> speed]

\* struct CommandBroadcast, lines 288-291, inside the Option the parser returns
SomeBroadcast(set, command) == [kind |-> "Some", devices_set |-> set, command |-> command]

\* An index past the end of a Vec (message_args[0], message_args[1]) panics:
\* the thread running osc_listen unwinds.
Panic == [kind |-> "Panic"]

\* A u32 as its two 16-bit halves: the value is hi * 65536 + lo.
U32(hi, lo) == [hi |-> hi, lo |-> lo]

\* `*x as u32` on an i32, line 222: the value modulo 2^32
IntAsU32(x) ==
    IF x >= 0 THEN U32(x \div 65536, x % 65536)
    ELSE LET y == (x + 2147483647) + 1      \* x + 2^31, in 0 .. 2^31 - 1
         IN  U32((y \div 65536) + 32768, y % 65536)

\* `*x as u32` on an f32 or f64, lines 225 and 228: truncation toward zero,
\* saturating at 0 (the model's values stay below 2^31)
FloatAsU32(q) ==
    IF q <= 0 THEN U32(0, 0)
    ELSE U32((q \div Scale) \div 65536, (q \div Scale) % 65536)

\* FloatLike without the Float arm of lines 196-198 and 238-240
FloatLikeDoubleOnly(arg) ==
    IF arg.kind = "Some" /\ arg.val.type = "Double"
    THEN [kind |-> "Some", val |-> arg.val.val]
    ELSE [kind |-> "None"]

\* FloatLike with an Int arm added: an integer is taken as a speed
FloatLikeAnyNumeric(arg) ==
    IF arg.kind = "Some" /\ arg.val.type \in {"Double", "Float", "Int"}
    THEN [kind |-> "Some", val |-> arg.val.val]
    ELSE [kind |-> "None"]

\* `*x` on a Double and `(*x).into()` on a Float, lines 193-198 and 235-240:
\* f32 to f64 is exact, the value is kept
FloatLike(arg) ==
    IF arg.kind = "Some" /\ arg.val.type \in {"Double", "Float"}
    THEN Some(arg.val.val)
    ELSE None

\* the motor match, lines 220-233
MotorOf(arg) ==
    IF arg.kind = "None" THEN None
    ELSE IF arg.val.type = "Int" THEN Some(IntAsU32(arg.val.val))
    ELSE IF arg.val.type \in {"Float", "Double"} THEN Some(FloatAsU32(arg.val.val))
    ELSE None

\* return invalid(&format!(.., message_args[i])): the diagnostic indexes the
\* argument list before it is logged (lines 200, 231, 242)
InvalidArgument(message_args, i) ==
    IF i + 1 <= Len(message_args) THEN None ELSE Panic

\* lines 190-210
VibrateSpeed(set, args) ==
    IF args.kind = "None" THEN None
    ELSE LET message_args == args.val
             speed == FloatLike(Get(message_args, 0))
         IN  IF speed.kind = "Some"
             THEN SomeBroadcast(set, CmdVibrate(speed.val))
             ELSE InvalidArgument(message_args, 0)

\* lines 218-254
VibrateMapSpeedMap(set, args) ==
    IF args.kind = "None" THEN None
    ELSE LET message_args == args.val
             motor == MotorOf(Get(message_args, 0))
             speed == FloatLike(Get(message_args, 1))
         IN  IF motor.kind = "None" THEN InvalidArgument(message_args, 1)
             ELSE IF speed.kind = "None" THEN InvalidArgument(message_args, 1)
             ELSE SomeBroadcast(set, CmdVibrateMap(motor.val, speed.val))

SegDevices == <<"d", "e", "v", "i", "c", "e", "s">>
SegStop == <<"s", "t", "o", "p">>
SegVibrate == <<"v", "i", "b", "r", "a", "t", "e">>
SegSpeed == <<"s", "p", "e", "e", "d">>
SegVibrateMap == <<"v", "i", "b", "r", "a", "t", "e", "M", "a", "p">>
SegSpeedMap == <<"s", "p", "e", "e", "d", "M", "a", "p">>

\* lines 170-264
validate_osc_message(message) ==
    LET path == Split(message.addr)
    IN  IF Get(path, 1) # Some(SegDevices) THEN None          \* "invalid message"
        ELSE IF Get(path, 3) = Some(SegStop)
             THEN SomeBroadcast(path[3], CmdStop)
        ELSE IF Get(path, 3) = Some(SegVibrate)
             THEN IF Get(path, 4) = Some(SegSpeed)
                  THEN VibrateSpeed(path[3], message.args)
                  ELSE None                                   \* "invalid argument name"
        ELSE IF Get(path, 3) = Some(SegVibrateMap)
             THEN IF Get(path, 4) = Some(SegSpeedMap)
                  THEN VibrateMapSpeedMap(path[3], message.args)
                  ELSE None
        ELSE None                                             \* "invalid command"

\* ------------------------------------------------------------------ devices

\* Raw names the remote server reports; "a b" and "ab" normalize alike, "abc"
\* has "ab" as a proper prefix.
RawNames ==
    << <<"a", " ", "b">>, <<"a", "b", "c">>, <<"a", "b">>,
       <<"a", "l", "l">>, <<"l", "a", "-", "s", "t">> >>

\* struct Device, lines 296-299: a handle on one ButtplugClientDevice; identity is
\* the session's device (PartialEq, lines 308-312), the name is a field
Dev(i) == [index |-> i, name |-> RawNames[i]]

Devices == {Dev(i) : i \in 1 .. NumDevices}

NoDevice == [index |-> 0, name |-> <<>>]

\* --intiface-connect, line 26 (the default) or given on the command line
Addresses == {"ws://127.0.0.1:12345", "ws://10.0.0.2:12345"}

\* ButtplugClientEvent, lines 71-89; End is the stream yielding None (line 69)
EvAdded(d) == [kind |-> "DeviceAdded", device |-> d]
EvRemoved(d) == [kind |-> "DeviceRemoved", device |-> d]
EvDisconnect == [kind |-> "ServerDisconnect", device |-> NoDevice]
EvOther == [kind |-> "Other", device |-> NoDevice]
EvEnd == [kind |-> "End", device |-> NoDevice]

Events ==
    {EvAdded(d) : d \in Devices} \cup {EvRemoved(d) : d \in Devices}
        \cup {EvDisconnect, EvOther, EvEnd}

\* ----------------------------------------------------------------- registry

\* evmap: the map readers see (`visible`) and the writer's operation log
\* (`staged`), applied to the map by refresh().

\* WriteHandle::update(k, v): replace the values of k by v
Upsert(map, k, v) == [x \in DOMAIN map \cup {k} |-> IF x = k THEN v ELSE map[x]]

RECURSIVE ApplyOps(_, _)
ApplyOps(ops, map) ==
    IF ops = <<>> THEN map
    ELSE ApplyOps(Tail(ops), Upsert(map, Head(ops).key, Head(ops).value))

\* ReadHandle::get_one(k)
get_one(map, k) == IF k \in DOMAIN map THEN Some(map[k]) ELSE None

EmptyMap == [x \in {} |-> NoDevice]

\* the test of line 161 without its `*k != DEVICES_LAST`
SelectedWithLast(set, k) ==
    set = DEVICES_ALL \/ StartsWith(k, set)

\* the test of line 161 without its left conjunct: every key but "last"
SelectedWhateverSet(set, k) ==
    k # DEVICES_LAST

\* the test of line 161
Selected(set, k) ==
    (set = DEVICES_ALL \/ StartsWith(k, set)) /\ k # DEVICES_LAST

VARIABLES
    address,      \* args.intiface_connect
    visible,      \* the registry as readers see it: key -> Device
    staged,       \* updates not yet refreshed
    spc,          \* where main / the running intiface_connect instance is
    instAddress,  \* the address argument of the running instance
    stream,       \* events buffered on the running instance's event stream
    device,       \* the device of the DeviceAdded event taken last
    exit,         \* the result main's await of line 56 holds, dropped by `let _`
    instances,    \* the intiface_connect tasks spawned and not yet completed
    mutex,        \* the Mutex around the WriteHandle (line 52): "free" or "locked"
    calls,        \* the calls of lines 67, 100 and 101 the instance has made, in order
    rescan,       \* what the scan calls of lines 83-84 returned for the event taken last
    dpc,          \* where osc_listen is
    message,      \* the message taken last
    broadcast,    \* what validate_osc_message returned for it
    pinned,       \* the map behind devices.read() of line 160
    fresh,        \* no refresh() since devices.read()
    remaining,    \* selected keys the loop of line 160 has yet to reach
    result,       \* filter_devices' Vec, each guard with the key it was read by
    spawned       \* the tasks spawned for this message, each running, ok or err

regVars == <<visible, staged>>
vars == <<address, visible, staged, spc, instAddress, stream, device, exit,
          instances, mutex, calls, rescan, dpc, message, broadcast, pinned, fresh, remaining, result, spawned>>

NoMessage == Message(<<>>, None)

Init ==
    /\ address \in Addresses
    /\ visible = EmptyMap
    /\ staged = <<>>
    /\ spc = "main"
    /\ instAddress = ""
    /\ stream = <<>>
    /\ device = NoDevice
    /\ exit = "none"
    /\ instances = 0
    /\ mutex = "free"
    /\ calls = <<>>
    /\ rescan = <<>>
    /\ dpc = "recv"
    /\ message = NoMessage
    /\ broadcast = None
    /\ pinned = EmptyMap
    /\ fresh = TRUE
    /\ remaining = {}
    /\ result = <<>>
    /\ spawned = <<>>

\* ------------------------------------------- main and intiface_connect

dispAll == <<dpc, message, broadcast, pinned, fresh, remaining, result, spawned>>

\* The instance ends: intiface_connect returns, the spawned task completes and
\* main's `let _ = ... .await` (line 56) takes its result.
Ended(how) ==
    /\ spc' = "ended"
    /\ exit' = how
    /\ instances' = instances - 1

\* SpawnInstance with evmap::new() inside the loop: each instance a new registry
SpawnInstanceFreshRegistry ==
    /\ spc \in {"main", "ended"}
    /\ spc' = "new"
    /\ instAddress' = address
    /\ stream' = <<>>
    /\ calls' = <<>>
    /\ visible' = EmptyMap
    /\ staged' = <<>>
    /\ exit' = "none"
    /\ instances' = instances + 1
    /\ UNCHANGED <<address, rescan, mutex, device, dispAll>>

\* SpawnInstance whose JoinHandle main does not await: the loop spawns the
\* next instance whether or not the one before has completed
SpawnInstanceNotAwaited ==
    /\ instances <= 1
    /\ spc' = "new"
    /\ instAddress' = address
    /\ stream' = <<>>
    /\ calls' = <<>>
    /\ exit' = "none"
    /\ instances' = instances + 1
    /\ UNCHANGED <<address, rescan, mutex, device, regVars, dispAll>>

\* lines 53-56 and 60-61: main's loop spawns intiface_connect(address, devices)
\* once the task spawned before has completed (the .await of line 56)
SpawnInstance ==
    /\ spc \in {"main", "ended"}
    /\ spc' = "new"
    /\ instAddress' = address
    /\ stream' = <<>>
    /\ calls' = <<>>
    /\ exit' = "none"
    /\ instances' = instances + 1
    /\ UNCHANGED <<address, rescan, mutex, device, regVars, dispAll>>

\* Subscribe with client.event_stream() taken inside event_loop, which is
\* polled at line 102 only: no subscription is made here
SubscribeInEventLoop ==
    /\ spc = "new"
    /\ spc' = "connect"
    /\ UNCHANGED <<address, calls, mutex, instances, instAddress, stream, device, exit,
                   rescan, regVars, dispAll>>

\* lines 66-67: ButtplugClient::new, client.event_stream()
Subscribe ==
    /\ spc = "new"
    /\ calls' = Append(calls, "event_stream")
    /\ spc' = "connect"
    /\ UNCHANGED <<address, rescan, mutex, instances, instAddress, stream, device, exit, regVars, dispAll>>

\* line 100: client.connect(connector).await?
Connect ==
    /\ spc = "connect"
    /\ calls' = Append(calls, "connect")
    /\ \/ spc' = "scan" /\ exit' = exit /\ instances' = instances
       \/ Ended("connect failed")
    /\ UNCHANGED <<address, rescan, mutex, instAddress, stream, device, regVars, dispAll>>

\* line 101: client.start_scanning().await?
StartScanning ==
    /\ spc = "scan"
    /\ calls' = Append(calls, "start_scanning")
    /\ \/ spc' = "running" /\ exit' = exit /\ instances' = instances
       \/ Ended("start_scanning failed")
    /\ UNCHANGED <<address, rescan, mutex, instAddress, stream, device, regVars, dispAll>>

\* The remote server (or the client's connection task) puts an event on the
\* stream of the running instance; nothing follows the end of the stream.
EmitUpTo(max) ==
    /\ spc \notin {"main", "new", "ended"}
    /\ Len(stream) < max
    /\ IF stream = <<>> THEN TRUE ELSE stream[Len(stream)] # EvEnd
    /\ \E e \in Events : stream' = Append(stream, e)
    /\ UNCHANGED <<address, calls, rescan, mutex, instances, spc, instAddress, device, exit, regVars, dispAll>>

Emit == EmitUpTo(MaxStream)

SessionEmit == EmitUpTo(MaxSessionStream)

\* lines 69-72: event_stream.next() yields DeviceAdded(device) and
\* devices.lock() takes the writer's mutex, waiting while it is locked
TakeDeviceAdded ==
    /\ spc = "running"
    /\ stream # <<>>
    /\ Head(stream).kind = "DeviceAdded"
    /\ mutex = "free"
    /\ stream' = Tail(stream)
    /\ rescan' = <<>>
    /\ device' = Head(stream).device
    /\ spc' = "update_name"
    /\ mutex' = "locked"
    /\ UNCHANGED <<address, calls, instances, instAddress, exit, regVars, dispAll>>

\* UpdateName on a map readers see at once
UpdateNameWriteThrough ==
    /\ spc = "update_name"
    /\ staged' = Append(staged, [key |-> normalize_device_name(device.name), value |-> device])
    /\ visible' = Upsert(visible, normalize_device_name(device.name), device)
    /\ spc' = "update_last"
    /\ UNCHANGED <<address, calls, rescan, mutex, instances, instAddress, stream, device, exit, dispAll>>

\* UpdateName with the name as the server reports it for key
UpdateNameRaw ==
    /\ spc = "update_name"
    /\ staged' = Append(staged, [key |-> device.name, value |-> device])
    /\ spc' = "update_last"
    /\ UNCHANGED <<address, calls, rescan, mutex, instances, instAddress, stream, device, exit, visible, dispAll>>

\* lines 73-75: devices.update(name, Device { .. })
UpdateName ==
    /\ spc = "update_name"
    /\ staged' = Append(staged, [key |-> normalize_device_name(device.name), value |-> device])
    /\ spc' = "update_last"
    /\ UNCHANGED <<address, calls, rescan, mutex, instances, instAddress, stream, device, exit, visible, dispAll>>

\* UpdateLast that binds "last" only while it is unbound
UpdateLastIfAbsent ==
    /\ spc = "update_last"
    /\ staged' = IF DEVICES_LAST \in DOMAIN visible THEN staged
                 ELSE Append(staged, [key |-> DEVICES_LAST, value |-> device])
    /\ spc' = "refresh"
    /\ UNCHANGED <<address, calls, rescan, mutex, instances, instAddress, stream, device, exit, visible, dispAll>>

\* line 76: devices.update(DEVICES_LAST, Device { .. })
UpdateLast ==
    /\ spc = "update_last"
    /\ staged' = Append(staged, [key |-> DEVICES_LAST, value |-> device])
    /\ spc' = "refresh"
    /\ UNCHANGED <<address, calls, rescan, mutex, instances, instAddress, stream, device, exit, visible, dispAll>>

\* Refresh that publishes a map holding the staged updates only
RefreshStagedOnly ==
    /\ spc = "refresh"
    /\ visible' = ApplyOps(staged, EmptyMap)
    /\ staged' = <<>>
    /\ fresh' = IF dpc = "iter" THEN FALSE ELSE fresh
    /\ spc' = "running"
    /\ mutex' = "free"
    /\ UNCHANGED <<address, calls, rescan, instances, instAddress, stream, device, exit,
                   dpc, message, broadcast, pinned, remaining, result, spawned>>

\* Refresh on a map that publishes one staged update at a time
RefreshOneByOne ==
    /\ spc = "refresh"
    /\ visible' = Upsert(visible, Head(staged).key, Head(staged).value)
    /\ staged' = Tail(staged)
    /\ fresh' = IF dpc = "iter" THEN FALSE ELSE fresh
    /\ spc' = IF staged' = <<>> THEN "running" ELSE "refresh"
    /\ mutex' = IF staged' = <<>> THEN "free" ELSE mutex
    /\ UNCHANGED <<address, calls, rescan, instances, instAddress, stream, device, exit,
                   dpc, message, broadcast, pinned, remaining, result, spawned>>

\* line 77: devices.refresh() publishes the staged updates; the guard of the
\* mutex drops at the end of the arm
Refresh ==
    /\ spc = "refresh"
    /\ visible' = ApplyOps(staged, visible)
    /\ staged' = <<>>
    /\ fresh' = IF dpc = "iter" THEN FALSE ELSE fresh
    /\ spc' = "running"
    /\ mutex' = "free"
    /\ UNCHANGED <<address, calls, rescan, instances, instAddress, stream, device, exit,
                   dpc, message, broadcast, pinned, remaining, result, spawned>>

\* TakeDeviceRemoved that empties and publishes the removed device's key
TakeDeviceRemovedEvicts ==
    /\ spc = "running"
    /\ stream # <<>>
    /\ Head(stream).kind = "DeviceRemoved"
    /\ stream' = Tail(stream)
    /\ rescan' = <<>>
    /\ visible' = [k \in DOMAIN visible \ {normalize_device_name(Head(stream).device.name)}
                     |-> visible[k]]
    /\ spc' = "stop_scanning"
    /\ UNCHANGED <<address, calls, mutex, instances, instAddress, device, exit, staged, dispAll>>

\* lines 80-82: DeviceRemoved is logged, the registry is left alone
TakeDeviceRemoved ==
    /\ spc = "running"
    /\ stream # <<>>
    /\ Head(stream).kind = "DeviceRemoved"
    /\ stream' = Tail(stream)
    /\ rescan' = <<>>
    /\ spc' = "stop_scanning"
    /\ UNCHANGED <<address, calls, mutex, instances, instAddress, device, exit, regVars, dispAll>>

\* StopScanning with `?` in place of `let _`: an Err ends the instance
StopScanningOrFail ==
    /\ spc = "stop_scanning"
    /\ \/ /\ rescan' = Append(rescan, "Ok")
          /\ spc' = "start_scanning"
          /\ exit' = exit
          /\ instances' = instances
       \/ /\ rescan' = Append(rescan, "Err")
          /\ Ended("stop_scanning failed")
    /\ UNCHANGED <<address, calls, mutex, instAddress, stream, device, regVars, dispAll>>

\* line 83: let _ = client.stop_scanning().await: Ok or Err, dropped by `let _`
StopScanning ==
    /\ spc = "stop_scanning"
    /\ \E r \in {"Ok", "Err"} : rescan' = Append(rescan, r)
    /\ spc' = "start_scanning"
    /\ UNCHANGED <<address, calls, mutex, instances, instAddress, stream, device, exit, regVars, dispAll>>

\* line 84: let _ = client.start_scanning().await: Ok or Err, dropped by `let _`
RestartScanning ==
    /\ spc = "start_scanning"
    /\ \E r \in {"Ok", "Err"} : rescan' = Append(rescan, r)
    /\ spc' = "running"
    /\ UNCHANGED <<address, calls, mutex, instances, instAddress, stream, device, exit, regVars, dispAll>>

\* TakeServerDisconnect that logs the event and goes on with the loop
TakeServerDisconnectIgnored ==
    /\ spc = "running"
    /\ stream # <<>>
    /\ Head(stream).kind = "ServerDisconnect"
    /\ stream' = Tail(stream)
    /\ rescan' = <<>>
    /\ UNCHANGED <<address, calls, mutex, instances, spc, instAddress, device, exit, regVars, dispAll>>

\* lines 86-88: bail!("ServerDisconnect")
TakeServerDisconnect ==
    /\ spc = "running"
    /\ stream # <<>>
    /\ Head(stream).kind = "ServerDisconnect"
    /\ stream' = Tail(stream)
    /\ rescan' = <<>>
    /\ Ended("ServerDisconnect")
    /\ UNCHANGED <<address, calls, mutex, instAddress, device, regVars, dispAll>>

\* TakeOther whose arm leaves the loop (`_ => break`)
TakeOtherBreaks ==
    /\ spc = "running"
    /\ stream # <<>>
    /\ Head(stream).kind = "Other"
    /\ stream' = Tail(stream)
    /\ rescan' = <<>>
    /\ Ended("stream ended")
    /\ UNCHANGED <<address, calls, mutex, instAddress, device, regVars, dispAll>>

\* line 89: any other event
TakeOther ==
    /\ spc = "running"
    /\ stream # <<>>
    /\ Head(stream).kind = "Other"
    /\ stream' = Tail(stream)
    /\ rescan' = <<>>
    /\ UNCHANGED <<address, calls, mutex, instances, spc, instAddress, device, exit, regVars, dispAll>>

\* lines 69 and 92: the stream yields None, the loop ends with Ok(())
TakeEnd ==
    /\ spc = "running"
    /\ stream # <<>>
    /\ Head(stream).kind = "End"
    /\ stream' = Tail(stream)
    /\ rescan' = <<>>
    /\ Ended("stream ended")
    /\ UNCHANGED <<address, calls, mutex, instAddress, device, regVars, dispAll>>

\* ---------------------------------------------------------------- osc_listen

sessAll == <<address, spc, instAddress, stream, device, exit, instances, mutex, calls, rescan>>

\* lines 111-113: rx.iter() and into_msgs() yield the next message
OscRecv(m) ==
    /\ dpc = "recv"
    /\ dpc' = "validate"
    /\ message' = m
    /\ broadcast' = None
    /\ pinned' = EmptyMap
    /\ fresh' = TRUE
    /\ remaining' = {}
    /\ result' = <<>>
    /\ spawned' = <<>>
    /\ UNCHANGED <<sessAll, regVars>>

\* line 114: validate_osc_message(message); None drops the message, a panic
\* unwinds the thread
Validate ==
    /\ dpc = "validate"
    /\ broadcast' = validate_osc_message(message)
    /\ dpc' = IF broadcast'.kind = "Some" THEN "filter"
              ELSE IF broadcast'.kind = "None" THEN "recv"
              ELSE "panicked"
    /\ UNCHANGED <<message, pinned, fresh, remaining, result, spawned, sessAll, regVars>>

\* FilterGetOne without the exact match: every expression is scanned for
FilterGetOneNoExact ==
    /\ dpc = "filter"
    /\ dpc' = "read"
    /\ UNCHANGED <<message, broadcast, pinned, fresh, remaining, result, spawned, sessAll, regVars>>

\* lines 157-158: devices.get_one(set); a hit is the whole result
FilterGetOne ==
    /\ dpc = "filter"
    /\ LET found == get_one(visible, broadcast.devices_set)
       IN  IF found.kind = "Some"
           THEN /\ result' = <<[key |-> broadcast.devices_set, device |-> found.val]>>
                /\ dpc' = "return"
           ELSE /\ result' = result
                /\ dpc' = "read"
    /\ UNCHANGED <<message, broadcast, pinned, fresh, remaining, spawned, sessAll, regVars>>

\* lines 160-161: devices.read()?.iter() over the map as it is now; the keys
\* failing the test of line 161 are passed over
FilterRead ==
    /\ dpc = "read"
    /\ pinned' = visible
    /\ fresh' = TRUE
    /\ remaining' = {k \in DOMAIN visible : Selected(broadcast.devices_set, k)}
    /\ dpc' = IF remaining' = {} THEN "return" ELSE "iter"
    /\ UNCHANGED <<message, broadcast, result, spawned, sessAll, regVars>>

\* line 162: the loop reaches a selected key, in whatever order the map
\* iterates, and reads it again: devices.get_one(k).expect("unexpected")
FilterIter ==
    /\ dpc = "iter"
    /\ \E k \in remaining :
         LET found == get_one(visible, k)
         IN  IF found.kind = "Some"
             THEN /\ result' = Append(result, [key |-> k, device |-> found.val])
                  /\ remaining' = remaining \ {k}
                  /\ dpc' = IF remaining' = {} THEN "return" ELSE "iter"
             ELSE /\ result' = result
                  /\ remaining' = remaining
                  /\ dpc' = "panicked"
    /\ UNCHANGED <<message, broadcast, pinned, fresh, spawned, sessAll, regVars>>

\* lines 165-167 and 115-116: filter_devices returns Some(result.into_iter()),
\* the map of line 160 is let go, and the loop over the devices begins
FilterReturn ==
    /\ dpc = "return"
    /\ pinned' = EmptyMap
    /\ fresh' = TRUE
    /\ dpc' = IF result = <<>> THEN "recv" ELSE "dispatch"
    /\ UNCHANGED <<message, broadcast, remaining, result, spawned, sessAll, regVars>>

\* lines 116-146: the next device of the result gets its task::spawn
SpawnTask ==
    /\ dpc = "dispatch"
    /\ Len(spawned) < Len(result)
    /\ spawned' = Append(spawned, [device |-> result[Len(spawned) + 1].device,
                                   command |-> broadcast.command,
                                   state |-> "running"])
    /\ dpc' = IF Len(spawned') = Len(result) THEN "recv" ELSE "dispatch"
    /\ UNCHANGED <<message, broadcast, pinned, fresh, remaining, result, sessAll, regVars>>

\* lines 122-144: a spawned task's device call returns Ok
TaskOk ==
    /\ \E i \in 1 .. Len(spawned) :
         /\ spawned[i].state = "running"
         /\ spawned' = [spawned EXCEPT ![i].state = "ok"]
    /\ UNCHANGED <<dpc, message, broadcast, pinned, fresh, remaining, result, sessAll, regVars>>

\* TaskErr whose error leaves the loop over the devices (the call awaited
\* in the loop, its error returned)
TaskErrAborts ==
    /\ \E i \in 1 .. Len(spawned) :
         /\ spawned[i].state = "running"
         /\ spawned' = [spawned EXCEPT ![i].state = "err"]
    /\ dpc' = IF dpc = "dispatch" THEN "recv" ELSE dpc
    /\ UNCHANGED <<message, broadcast, pinned, fresh, remaining, result, sessAll, regVars>>

\* lines 124-126, 133-135, 141-143: the device call returns Err, which map_err logs
TaskErr ==
    /\ \E i \in 1 .. Len(spawned) :
         /\ spawned[i].state = "running"
         /\ spawned' = [spawned EXCEPT ![i].state = "err"]
    /\ UNCHANGED <<dpc, message, broadcast, pinned, fresh, remaining, result, sessAll, regVars>>

\* ----------------------------------------------------------------- messages

RECURSIVE Join(_)
\* the address whose split('/') is segs
Join(segs) ==
    IF segs = <<>> THEN <<>>
    ELSE IF Len(segs) = 1 THEN Head(segs)
    ELSE Head(segs) \o <<"/">> \o Join(Tail(segs))

SetAB == <<"a", "b">>
SetA == <<"a">>
SetABC == <<"a", "b", "c">>
SetX == <<"x">>

Addr(set, rest) == Join(<< <<>>, SegDevices, set >> \o rest)

\* The messages the full system is run on.
MainMessages ==
    { Message(Addr(DEVICES_ALL, <<SegVibrate, SegSpeed>>), Some(<<OscFloat(2)>>)),
      Message(Addr(DEVICES_LAST, <<SegStop>>), None),
      Message(Addr(SetAB, <<SegStop>>), None),
      Message(Addr(SetX, <<SegStop>>), None),
      Message(Addr(SetABC, <<SegVibrateMap, SegSpeedMap>>), Some(<<OscInt(2), OscDouble(3)>>)),
      Message(Addr(SetAB, <<SegVibrateMap, SegSpeedMap>>), Some(<<OscInt(2)>>)),
      Message(Addr(SetAB, <<SegVibrate, SegSpeed>>), Some(<<OscString(SetX)>>)) }

\* The messages the parser is run on: every address of up to MaxPathLen
\* segments after a leading slash, and of one segment fewer after a first
\* segment "x" (no leading slash), with every argument list below.
ParserSegments ==
    {SegDevices, SegStop, SegVibrate, SegSpeed, SegVibrateMap, SegSpeedMap, SetAB}

ParserPaths(len) == UNION {[1 .. n -> ParserSegments] : n \in 0 .. len}

ParserAddrs ==
    {Join(<< <<>> >> \o p) : p \in ParserPaths(MaxPathLen)}
        \cup {Join(<<SetX>> \o p) : p \in ParserPaths(MaxPathLen - 1)}

ParserArgs ==
    { None, Some(<<>>),
      Some(<<OscFloat(2)>>), Some(<<OscDouble(3)>>), Some(<<OscInt(2)>>),
      Some(<<OscString(SetX)>>),
      Some(<<OscInt(2), OscDouble(3)>>), Some(<<OscFloat(2 * Scale + 2), OscFloat(3)>>),
      Some(<<OscInt(-1), OscFloat(2)>>), Some(<<OscDouble(2 * Scale), OscDouble(2)>>),
      Some(<<OscString(SetX), OscFloat(2)>>), Some(<<OscInt(2), OscString(SetX)>>) }

ParserMessages == {Message(a, args) : a \in ParserAddrs, args \in ParserArgs}

\* ------------------------------------------------------------ specifications

SessionNext ==
    \/ SpawnInstance
    \/ Subscribe
    \/ Connect
    \/ StartScanning
    \/ TakeDeviceAdded
    \/ UpdateName
    \/ UpdateLast
    \/ Refresh
    \/ TakeDeviceRemoved
    \/ StopScanning
    \/ RestartScanning
    \/ TakeServerDisconnect
    \/ TakeOther
    \/ TakeEnd

ListenNext ==
    \/ \E m \in MainMessages : OscRecv(m)
    \/ Validate
    \/ FilterGetOne
    \/ FilterRead
    \/ FilterIter
    \/ FilterReturn
    \/ SpawnTask
    \/ TaskOk
    \/ TaskErr

Next == SessionNext \/ Emit \/ ListenNext

\* The whole program: the reconnect loop, the remote server and the listener.
Spec == Init /\ [][Next]_vars

\* The parser alone: osc_listen holds a message of ParserMessages and no
\* session is up (the registry is empty).
ParserInit ==
    /\ address = "ws://127.0.0.1:12345"
    /\ visible = EmptyMap
    /\ staged = <<>>
    /\ spc = "main"
    /\ instAddress = ""
    /\ stream = <<>>
    /\ device = NoDevice
    /\ exit = "none"
    /\ instances = 0
    /\ mutex = "free"
    /\ calls = <<>>
    /\ rescan = <<>>
    /\ dpc = "validate"
    /\ message \in ParserMessages
    /\ broadcast = None
    /\ pinned = EmptyMap
    /\ fresh = TRUE
    /\ remaining = {}
    /\ result = <<>>
    /\ spawned = <<>>

ParserNext == Validate \/ FilterGetOne \/ FilterRead \/ FilterReturn

ParserSpec == ParserInit /\ [][ParserNext]_vars

\* The session alone, with a longer stream: main's loop, the instance and the
\* remote server. tokio runs main and the one task it spawned, and the calls
\* the instance awaits return: a step of the session that can be taken is
\* taken.
SessionNext2 == SessionNext \/ SessionEmit

SessionFairSpec == Init /\ [][SessionNext2]_vars /\ WF_vars(SessionNext)

\* ------------------------------------------------------ the command parser

Validated == dpc # "validate"

PathOf(set, rest) == Join(<< <<>>, SegDevices, set >> \o rest)

IsFloatLike(a) == a.type \in {"Float", "Double"}

\* the value of a numeric argument that is a motor index: a whole number >= 0
IsMotorIndex(a, m) ==
    \/ a.type = "Int" /\ a.val = m
    \/ a.type \in {"Float", "Double"} /\ a.val = m * Scale

U32Value(u) == u.hi * 65536 + u.lo

\* the set segments the messages of the two specifications use
SetSegments == ParserSegments \cup {DEVICES_ALL, DEVICES_LAST, SetA, SetABC, SetX}

StopAddr == [s \in SetSegments |-> PathOf(s, <<SegStop>>)]
VibrateAddr == [s \in SetSegments |-> PathOf(s, <<SegVibrate, SegSpeed>>)]
VibrateMapAddr == [s \in SetSegments |-> PathOf(s, <<SegVibrateMap, SegSpeedMap>>)]

\* C3: a well-formed message parses to its command, targeting the set segment
\* as written: /devices/s/stop, whatever its arguments, gives Stop;
\* /devices/s/vibrate/speed with a float or double first argument v gives
\* Vibrate(v); /devices/s/vibrateMap/speedMap with a motor index m (an int,
\* float or double holding a whole number >= 0) and a float or double v gives
\* VibrateMap(m, v).
C3_WellFormedParses ==
    Validated =>
      \A s \in SetSegments :
        /\ message.addr = StopAddr[s]
             => broadcast = SomeBroadcast(s, CmdStop)
        /\ ( /\ message.addr = VibrateAddr[s]
             /\ message.args.kind = "Some"
             /\ Len(message.args.val) >= 1
             /\ IsFloatLike(message.args.val[1]) )
             => broadcast = SomeBroadcast(s, CmdVibrate(message.args.val[1].val))
        /\ ( /\ message.addr = VibrateMapAddr[s]
             /\ message.args.kind = "Some"
             /\ Len(message.args.val) >= 2
             /\ \E m \in 0 .. 3 : IsMotorIndex(message.args.val[1], m)
             /\ IsFloatLike(message.args.val[2]) )
             => /\ broadcast.kind = "Some"
                /\ broadcast.devices_set = s
                /\ broadcast.command.kind = "VibrateMap"
                /\ IsMotorIndex(message.args.val[1], U32Value(broadcast.command.motor))
                /\ broadcast.command.speed = message.args.val[2].val

\* a double motor index and a double speed were parsed to VibrateMap
C3_Witness ==
    /\ Validated
    /\ message.addr = PathOf(SetAB, <<SegVibrateMap, SegSpeedMap>>)
    /\ message.args = Some(<<OscDouble(2 * Scale), OscDouble(2)>>)
    /\ broadcast = SomeBroadcast(SetAB, CmdVibrateMap(U32(0, 2), 2))

\* C9: an argument list that is present but too short (empty on
\* vibrate/speed, fewer than two on vibrateMap/speedMap) makes the parser
\* return None, and osc_listen is back at its receive.
C9_ShortArgsDropped ==
    ( /\ Validated
      /\ message.args.kind = "Some"
      /\ \E s \in SetSegments :
           \/ /\ message.addr = VibrateAddr[s]
              /\ Len(message.args.val) = 0
           \/ /\ message.addr = VibrateMapAddr[s]
              /\ Len(message.args.val) < 2 )
      => (broadcast = None /\ dpc = "recv")

\* C10: the parser returns a command only for an address that is exactly
\* /devices/<set>/stop, /devices/<set>/vibrate/speed or
\* /devices/<set>/vibrateMap/speedMap.
C10_OnlyGrammarPaths ==
    (Validated /\ broadcast.kind = "Some")
      => \E s \in SetSegments :
           message.addr \in {StopAddr[s], VibrateAddr[s], VibrateMapAddr[s]}

IsNumeric(a) == a.type \in {"Int", "Float", "Double"}

\* C11: a message on /devices/<set>/vibrate/speed whose first argument is
\* there but is neither a float nor a double, or on
\* /devices/<set>/vibrateMap/speedMap whose two arguments are there but whose
\* motor is not numeric or whose speed is neither float nor double, makes the
\* parser return None: osc_listen is back at its receive and has spawned no
\* task.
C11_TypeMismatchDropped ==
    ( /\ Validated
      /\ message.args.kind = "Some"
      /\ \E s \in SetSegments :
           \/ /\ message.addr = VibrateAddr[s]
              /\ Len(message.args.val) >= 1
              /\ ~IsFloatLike(message.args.val[1])
           \/ /\ message.addr = VibrateMapAddr[s]
              /\ Len(message.args.val) >= 2
              /\ ~IsNumeric(message.args.val[1]) \/ ~IsFloatLike(message.args.val[2]) )
      => (broadcast = None /\ dpc = "recv" /\ result = <<>> /\ spawned = <<>>)

\* a string where the motor index is expected, the speed a float: dropped
C11_Witness ==
    /\ Validated
    /\ message.addr = PathOf(SetAB, <<SegVibrateMap, SegSpeedMap>>)
    /\ message.args = Some(<<OscString(SetX), OscFloat(2)>>)
    /\ broadcast = None
    /\ dpc = "recv"

\* --------------------------------------------------- device-set resolution

\* filter_devices returns what the get_one of line 157 found
ExactBranch == dpc = "return" /\ result # <<>> /\ pinned = EmptyMap

\* filter_devices returns what the scan of lines 160-164 found
BulkBranch == dpc = "return" /\ ~ExactBranch

IsPrefix(p, k) == \E n \in 0 .. Len(k) : SubSeq(k, 1, n) = p

\* C1: a set expression that is a key of the map the reader sees resolves to
\* exactly the device bound to that key, whatever else is stored.
C1_ExactMatch ==
    /\ [][ ( /\ dpc = "filter"
             /\ dpc' # "filter"
             /\ broadcast.devices_set \in DOMAIN visible )
           => ( /\ dpc' = "return"
                /\ result' = <<[key |-> broadcast.devices_set,
                                device |-> visible[broadcast.devices_set]]>> ) ]_vars
    /\ [](ExactBranch => Len(result) = 1 /\ result[1].key = broadcast.devices_set)

\* "ab" resolved by exact match while "abc" is stored too
C1_Witness ==
    /\ ExactBranch
    /\ broadcast.devices_set = SetAB
    /\ result = <<[key |-> SetAB, device |-> Dev(3)]>>
    /\ SetABC \in DOMAIN visible

\* C2: in the bulk branch the keys resolved are exactly the keys of the map
\* read at line 160 that are not "last" and that the expression is a prefix
\* of (or all of them, for "all"), each once, in whatever order the map
\* iterates; with no refresh during the scan the devices are those the map
\* binds to these keys.
C2_BulkMatch ==
    BulkBranch =>
      LET set == broadcast.devices_set
          keys == {k \in DOMAIN pinned :
                     k # DEVICES_LAST /\ (set = DEVICES_ALL \/ IsPrefix(set, k))}
      IN  /\ {result[i].key : i \in 1 .. Len(result)} = keys
          /\ Len(result) = Cardinality(keys)
          /\ fresh => \A i \in 1 .. Len(result) : result[i].device = pinned[result[i].key]

\* "all" resolved to the two named devices, "abc" first, "last" left out
C2_Witness ==
    /\ BulkBranch
    /\ broadcast.devices_set = DEVICES_ALL
    /\ fresh
    /\ DOMAIN pinned = {SetAB, SetABC, DEVICES_LAST}
    /\ Len(result) = 2
    /\ result[1].key = SetABC
    /\ result[2].key = SetAB

\* C12: a set expression that is not a key of the map read, is not "all" and
\* is a prefix of none of its keys other than "last" resolves to the empty
\* result; filter_devices returns it without failing, osc_listen spawns no
\* task for the message and is back at its receive.
C12_UnresolvableIsEmpty ==
    /\ []( ( /\ BulkBranch
             /\ broadcast.devices_set \notin DOMAIN pinned
             /\ broadcast.devices_set # DEVICES_ALL
             /\ \A k \in DOMAIN pinned \ {DEVICES_LAST} : ~IsPrefix(broadcast.devices_set, k) )
           => result = <<>> )
    /\ [][ (dpc = "return" /\ result = <<>> /\ dpc' # dpc)
           => (dpc' = "recv" /\ result' = <<>> /\ spawned' = <<>>) ]_vars
    /\ []( (result = <<>> /\ dpc # "panicked") => spawned = <<>> )

\* "x" scanned for over a registry of "ab", "abc" and "last": nothing found
C12_Witness ==
    /\ BulkBranch
    /\ broadcast.devices_set = SetX
    /\ DOMAIN pinned = {SetAB, SetABC, DEVICES_LAST}
    /\ result = <<>>

\* C20: whatever updates and refreshes fall between the read of line 160 and
\* the lookups of line 162, every key the scan has selected is a key of the
\* map the lookup reads: the lookup finds a device, the scan goes on or
\* returns, and osc_listen is never stopped by the expect of line 162 (where
\* it is stopped, the parser has panicked).
C20_BulkLookupNeverFails ==
    /\ [](dpc = "iter" => (remaining # {} /\ remaining \subseteq DOMAIN visible))
    /\ [][ (dpc = "iter" /\ dpc' # dpc) => (dpc' = "return" /\ remaining' = {}) ]_vars
    /\ [][ (dpc = "iter" /\ result' # result)
           => \E k \in remaining :
                /\ result' = Append(result, [key |-> k, device |-> visible[k]])
                /\ remaining' = remaining \ {k} ]_vars
    /\ [](dpc = "panicked" => broadcast = Panic)

\* a refresh fell inside the scan for "all": "abc" was looked up before it and
\* "ab" after it, and the lookup of "ab" found the device published meanwhile
C20_Witness ==
    /\ BulkBranch
    /\ ~fresh
    /\ broadcast.devices_set = DEVICES_ALL
    /\ pinned = (SetAB :> Dev(1)) @@ (SetABC :> Dev(2)) @@ (DEVICES_LAST :> Dev(2))
    /\ result = <<[key |-> SetABC, device |-> Dev(2)], [key |-> SetAB, device |-> Dev(3)]>>

\* ------------------------------------------------------------- the registry

InAddedArm == spc \in {"update_name", "update_last", "refresh"}

\* C4: an update is not seen by readers before refresh() (the map they read
\* is the one published before), and once the arm of DeviceAdded has
\* refreshed, a lookup of the device's normalized name returns that device.
C4_Visibility ==
    /\ [][ (staged' # staged /\ staged' # <<>>) => visible' = visible ]_vars
    /\ []( (device # NoDevice /\ ~InAddedArm)
             => get_one(visible, normalize_device_name(device.name)) = Some(device) )

\* both updates of "ab" -> Dev(3) are staged while readers still get Dev(1)
C4_Witness ==
    /\ spc = "refresh"
    /\ device = Dev(3)
    /\ Len(staged) = 2
    /\ get_one(visible, SetAB) = Some(Dev(1))

\* C13: the map readers see changes only by both updates of one DeviceAdded
\* at once: the device's normalized name and "last" are bound to it in the
\* same step and no other key changes; so in every map a reader can see, the
\* device bound to "last" is also the one bound to its own normalized name.
C13_NoPartialBatch ==
    /\ [][ visible' # visible
           => visible' = Upsert(Upsert(visible, normalize_device_name(device.name), device),
                                DEVICES_LAST, device) ]_vars
    /\ [](\A map \in {visible, pinned} :
            DEVICES_LAST \in DOMAIN map
              => get_one(map, normalize_device_name(map[DEVICES_LAST].name))
                   = Some(map[DEVICES_LAST]))

\* a scan began on the map that had "ab" and "last" bound to two earlier
\* devices; the map readers get now has both bound to the third
C13_Witness ==
    /\ dpc = "iter"
    /\ ~fresh
    /\ pinned = (SetAB :> Dev(1)) @@ (SetABC :> Dev(2)) @@ (DEVICES_LAST :> Dev(2))
    /\ visible = (SetAB :> Dev(3)) @@ (SetABC :> Dev(2)) @@ (DEVICES_LAST :> Dev(3))

\* C14: taking a DeviceRemoved, ServerDisconnect or other event or the end of
\* the stream, the stop-scan/start-scan cycle, the end of an instance and the
\* spawn and start of the next one leave the registry (the map readers see
\* and the staged updates) as it is; and no step ever takes a key out of the
\* map readers see.
C14_NoEviction ==
    /\ [][ ( \/ /\ spc = "running"
                 /\ stream # <<>>
                 /\ Head(stream).kind # "DeviceAdded"
                 /\ stream' = Tail(stream)
              \/ spc \in {"stop_scanning", "start_scanning", "ended", "main",
                           "new", "connect", "scan"} )
           => UNCHANGED <<visible, staged>> ]_vars
    /\ [][ DOMAIN visible \subseteq DOMAIN visible' ]_vars

\* a DeviceRemoved event has been taken and every name ever added, the
\* removed device's too, is still a key, as is "last"
C14_Witness ==
    /\ spc = "stop_scanning"
    /\ staged = <<>>
    /\ DOMAIN visible = {SetAB, SetABC, DEVICES_LAST}

LovenseEdge2Raw ==
    <<"L", "o", "v", "e", "n", "s", "e", " ", "E", "d", "g", "e", " ", "(", "2", ")">>

LovenseEdge2 == <<"L", "o", "v", "e", "n", "s", "e", "E", "d", "g", "e", "2">>

\* C15: "Lovense Edge (2)" normalizes to "LovenseEdge2"; every key of the
\* registry other than "last" is the raw name of the device it is bound to
\* with the non-alphanumeric characters removed; and publishing a device whose
\* name normalizes like that of another device already stored rebinds that
\* device's key to the newcomer and adds no key.
C15_NormalizedKeys ==
    /\ [](normalize_device_name(LovenseEdge2Raw) = LovenseEdge2)
    /\ [](\A k \in DOMAIN visible :
            /\ \A i \in 1 .. Len(k) : k[i] \in Alphanumeric
            /\ k # DEVICES_LAST
                 => /\ k = SelectSeq(visible[k].name, LAMBDA c : c \in Alphanumeric)
                    /\ k = normalize_device_name(visible[k].name))
    /\ [][ \A k \in DOMAIN visible \ {DEVICES_LAST} :
             ( /\ visible' # visible
               /\ visible[k] # device
               /\ normalize_device_name(visible[k].name) = normalize_device_name(device.name) )
             => /\ visible'[k] = device
                /\ DOMAIN visible' = DOMAIN visible ]_vars

\* "ab" had been resolved to the device named "a b"; the device named "ab"
\* was added since and the one key "ab" is now bound to it
C15_Witness ==
    /\ result = <<[key |-> SetAB, device |-> Dev(1)]>>
    /\ visible = (SetAB :> Dev(3)) @@ (DEVICES_LAST :> Dev(3))
    /\ Dev(1).name # Dev(3).name

\* C5: once a DeviceAdded event has been processed, "last" is bound to the
\* device of the DeviceAdded event processed last, across DeviceRemoved events,
\* disconnects and new instances.
C5_LastFollowsAdd ==
    (device # NoDevice /\ ~InAddedArm) => get_one(visible, DEVICES_LAST) = Some(device)

\* a later DeviceAdded has rebound "last" with two other names registered
C5_Witness ==
    /\ spc = "running"
    /\ device = Dev(3)
    /\ DOMAIN visible = {SetAB, SetABC, DEVICES_LAST}
    /\ visible[DEVICES_LAST] = Dev(3)
    /\ visible[SetABC] = Dev(2)

\* C16: there is never more than one intiface_connect task; the mutex is
\* locked only while that one task is in its DeviceAdded arm; the registry is
\* written only under the lock; and no step of osc_listen locks or unlocks
\* the mutex, nor does a step that does either move osc_listen.
C16_SingleWriter ==
    /\ [](instances \in {0, 1})
    /\ [](mutex = "locked" => (instances = 1 /\ InAddedArm))
    /\ [][ (staged' # staged \/ visible' # visible)
           => (mutex = "locked" /\ instances = 1 /\ instances' = 1) ]_vars
    /\ [][ mutex' # mutex
           => UNCHANGED <<dpc, message, broadcast, pinned, remaining, result, spawned>> ]_vars
    /\ [][ dpc' # dpc => mutex' = mutex ]_vars

\* the one instance holds the lock with its first update staged, over a
\* registry left by earlier events, while osc_listen is in the middle of a scan
C16_Witness ==
    /\ instances = 1
    /\ mutex = "locked"
    /\ spc = "update_last"
    /\ Len(staged) = 1
    /\ visible # EmptyMap
    /\ dpc = "iter"
    /\ result # <<>>

\* C17: taking a DeviceRemoved event leads to the stop-scan request, that
\* request, whether it returns Ok or Err, to the start-scan request, and that
\* one, whether it returns Ok or Err, back to the event loop, with the same
\* instance, its stream and the registry untouched: the instance has not ended
\* and main has spawned nothing.
C17_RemovedHandledLocally ==
    /\ [][ ( /\ spc = "running"
             /\ stream # <<>>
             /\ Head(stream).kind = "DeviceRemoved"
             /\ stream' = Tail(stream) )
           => (spc' = "stop_scanning" /\ rescan' = <<>>) ]_vars
    /\ [][ (spc = "stop_scanning" /\ spc' # spc)
           => (spc' = "start_scanning" /\ Len(rescan') = 1) ]_vars
    /\ [][ (spc = "start_scanning" /\ spc' # spc)
           => (spc' = "running" /\ Len(rescan') = 2) ]_vars
    /\ [][ (spc \in {"stop_scanning", "start_scanning"})
           => UNCHANGED <<instances, exit, instAddress, visible, staged, device>> ]_vars
    /\ [](spc \in {"stop_scanning", "start_scanning"} => (instances = 1 /\ exit = "none"))

\* both requests failed; the instance is back in its event loop with the next
\* event waiting on the same stream
C17_Witness ==
    /\ spc = "running"
    /\ rescan = <<"Err", "Err">>
    /\ instances = 1
    /\ exit = "none"
    /\ stream = <<EvAdded(Dev(2))>>

SetupCalls == <<"event_stream", "connect", "start_scanning">>

\* C18: the calls an instance makes are event_stream, connect and
\* start_scanning in that order; start_scanning is requested only by an
\* instance whose connect has succeeded; an event is taken off the stream
\* only by a live instance that has made all three and is in its event loop
\* (the stream of an ended instance is dropped whole by the next spawn); and
\* an instance ended by a failed connect or start_scanning has taken none (what
\* was delivered is still on its stream, the registry and the device added
\* last are as the instance found them).
C18_SubscribeBeforeScan ==
    /\ [](\E n \in 0 .. 3 : calls = SubSeq(SetupCalls, 1, n))
    /\ [](spc = "connect" => calls = SubSeq(SetupCalls, 1, 1))
    /\ [](spc = "scan" => calls = SubSeq(SetupCalls, 1, 2))
    /\ [](exit = "connect failed" => calls = SubSeq(SetupCalls, 1, 2))
    /\ [][ (Len(calls') = 3 /\ Len(calls) = 2) => (spc = "scan" /\ exit = "none") ]_vars
    /\ [][ (stream # <<>> /\ stream' = Tail(stream) /\ spc # "ended")
           => (spc = "running" /\ calls = SetupCalls) ]_vars
    /\ [][ (spc \in {"new", "connect", "scan"})
           => /\ UNCHANGED <<visible, staged, device>>
              /\ Len(stream') >= Len(stream)
              /\ SubSeq(stream', 1, Len(stream)) = stream ]_vars

\* start_scanning has failed with a DeviceAdded event delivered and not taken
C18_Witness ==
    /\ spc = "ended"
    /\ exit = "start_scanning failed"
    /\ calls = SetupCalls
    /\ stream = <<EvAdded(Dev(1))>>
    /\ visible = EmptyMap
    /\ device = NoDevice

\* a DeviceAdded(d) event is on the stream of a live instance with no
\* ServerDisconnect before it
Delivered(d) ==
    /\ spc \notin {"main", "new", "ended"}
    /\ \E i \in 1 .. Len(stream) :
         /\ stream[i] = EvAdded(d)
         /\ \A j \in 1 .. i - 1 : stream[j] # EvDisconnect

Published(d) ==
    /\ get_one(visible, normalize_device_name(d.name)) = Some(d)
    /\ get_one(visible, DEVICES_LAST) = Some(d)

SetupFailed == spc = "ended" /\ exit \in {"connect failed", "start_scanning failed"}

\* C19: a DeviceAdded event that is on the stream of a live instance, put there
\* during connect, during start_scanning or later, behind whatever events but
\* a ServerDisconnect, is in the end published under the device's normalized
\* name and under "last", unless connect or start_scanning fails.
C19_NoAddedDeviceLost ==
    \A d \in Devices : Delivered(d) ~> (Published(d) \/ SetupFailed)

\* the device delivered behind another event while connect was under way is
\* published
C19_Witness ==
    /\ spc = "running"
    /\ calls = SetupCalls
    /\ device = Dev(2)
    /\ Published(Dev(2))
    /\ get_one(visible, SetAB) = Some(Dev(1))
    /\ stream = <<EvOther, EvEnd>>

\* ------------------------------------------------------------ the dispatcher

\* C8: the tasks spawned for a message are one per device of the result, in
\* its order, with the message's command; when the loop is over there is one
\* for each; a task ending in Err changes nothing of osc_listen and no other
\* task.
C8_FailureIsolation ==
    /\ []( /\ Len(spawned) <= Len(result)
           /\ \A i \in 1 .. Len(spawned) :
                /\ spawned[i].device = result[i].device
                /\ spawned[i].command = broadcast.command
           /\ dpc = "dispatch" => Len(spawned) < Len(result)
           /\ (dpc = "recv" /\ broadcast.kind = "Some") => Len(spawned) = Len(result) )
    /\ [][ \A i \in 1 .. Len(spawned) :
             ( /\ Len(spawned') = Len(spawned)
               /\ spawned[i].state = "running"
               /\ spawned'[i].state = "err" )
             => /\ UNCHANGED <<dpc, message, broadcast, pinned, remaining, result>>
                /\ \A j \in 1 .. Len(spawned) : j # i => spawned'[j] = spawned[j] ]_vars

\* the first device's call failed, the second device's task ran all the same
C8_Witness ==
    /\ dpc = "recv"
    /\ Len(result) = 2
    /\ Len(spawned) = 2
    /\ spawned[1].state = "err"
    /\ spawned[2].state = "ok"

\* ------------------------------------------------------------- reconnection

\* tokio runs main's loop and the task it spawned: a spawn or a subscription
\* that can be made is made.
FairSpec == Spec /\ WF_vars(SpawnInstance) /\ WF_vars(Subscribe)

\* C6: taking ServerDisconnect ends the instance; until main spawns the next
\* one no event is taken and the registry is not written; and main does spawn
\* the next one, which gets to connect with the configured address.
C6_DisconnectRestarts ==
    /\ [][ (spc = "running" /\ stream # <<>> /\ Head(stream) = EvDisconnect /\ stream' = Tail(stream))
           => (spc' = "ended" /\ exit' = "ServerDisconnect") ]_vars
    /\ [][ spc = "ended"
           => /\ UNCHANGED <<visible, staged, device>>
              /\ stream' = stream \/ (spc' = "new" /\ stream' = <<>>) ]_vars
    /\ (spc = "ended" /\ exit = "ServerDisconnect")
         ~> (spc = "connect" /\ instAddress = address)

\* an instance that had registered a device has ended on ServerDisconnect
C6_Witness ==
    /\ spc = "ended"
    /\ exit = "ServerDisconnect"
    /\ stream = <<>>
    /\ instAddress = address
    /\ visible # EmptyMap

\* C7: however an instance ended, main spawns the next one, with the
\* configured address and the registry as it was left.
C7_SupervisorLoops ==
    /\ [][ (spc = "ended" /\ spc' # "ended")
           => /\ spc' = "new"
              /\ instAddress' = address
              /\ UNCHANGED <<address, visible, staged>> ]_vars
    /\ \A how \in {"connect failed", "start_scanning failed", "ServerDisconnect", "stream ended"} :
         (spc = "ended" /\ exit = how) ~> (spc = "new" /\ instAddress = address)

\* main has spawned a new instance, the registry of the earlier ones kept
C7_Witness ==
    /\ spc = "new"
    /\ exit = "none"
    /\ instAddress = address
    /\ DOMAIN visible = {SetAB, SetABC, DEVICES_LAST}

====
